---- MODULE Spec2Model ----
(***************************************************************************)
(* Model of src/main.go: the /cep/{cep} handler that races two upstream    *)
(* address services (brasilapi, viacep) under a shared 1-second context    *)
(* and answers with the first message put on the result channel.           *)
(*                                                                         *)
(* Every piece of per-request state is a function over Reqs, because       *)
(* net/http runs handleCEP once per inbound request, each invocation with  *)
(* its own locals (ctx, cancel, resChan, result).                          *)
(***************************************************************************)
EXTENDS Integers, Sequences, FiniteSets, TLC

----------------------------------------------------------------------------
(* Bounds of the model *)

\* Number of clock ticks that make up the 1-second budget of the context.
Timeout == 2

\* Number of distinct non-zero addresses an upstream body can carry.
NumAddrs == 2

----------------------------------------------------------------------------
(* Program constants and value domains *)

Reqs == {1, 2}

Providers == {"brasilapi", "viacep"}

\* make(chan resultadoAPI, 2)
ChanCapOne == 1
ChanCap == 2

StatusOK == 200
StatusBadRequest == 400
StatusRequestTimeout == 408
StatusInternalServerError == 500
\* the statuses an upstream may answer with: success, and a non-success one
UpstreamStatuses == {StatusOK, 503}

Addrs == 1..NumAddrs

\* The request paths fed to the handler, as token sequences ("/" separates).
Paths == { <<"/", "cep", "/", "01001000">>,
           <<"/", "cep", "/", "%zz">>,
           <<"/", "cep", "/">>,
           <<"/", "cep">>,
           <<"/", "cep", "/", "123", "/", "extra">> }

\* strings.Split(s, "/"): the segments between separators; a segment is the
\* sequence of tokens between two "/" (the empty string is <<>>).
RECURSIVE SplitFrom(_, _, _)
SplitFrom(s, i, cur) ==
    IF i > Len(s) THEN <<cur>>
    ELSE IF s[i] = "/" THEN <<cur>> \o SplitFrom(s, i + 1, <<>>)
    ELSE SplitFrom(s, i + 1, Append(cur, s[i]))

Split(s) == SplitFrom(s, 1, <<>>)

\* len(parts) != 3 || parts[2] == ""  (negated): Go indexes from 0.
WellFormedNoEmptyCheck(parts) == Len(parts) = 3
WellFormed(parts) == Len(parts) = 3 /\ parts[3] # <<>>

\* cep := parts[2]
CepOf(p) == Split(p)[3]

\* http.NewRequestWithContext fails when the URL built from the cep does not
\* parse (an invalid percent escape such as "%zz").
UrlParses(cep) == cep # <<"%zz">>

----------------------------------------------------------------------------
(* Errors: a message (sequence of text parts) and the chain errors.Is walks *)

NilErr == [msg |-> <<>>, chain |-> {}]

\* ctx.Err() of a finished context
CtxErrValue(c) ==
    [msg   |-> <<IF c = "DeadlineExceeded" THEN "context deadline exceeded"
                 ELSE "context canceled">>,
     chain |-> {c}]

\* *url.Error, which http.Client.Do returns: it keeps the wrapped error
\* reachable through Unwrap.
UrlError(e) == [msg |-> <<"Get: ">> \o e.msg, chain |-> e.chain]

\* fmt.Errorf("...%v", err): the text of err is kept, the chain is not.
ErrorfV(prefix, e) == [msg |-> <<prefix>> \o e.msg, chain |-> {}]

NetErr == [msg |-> <<"dial tcp: connection refused">>, chain |-> {}]
EofErr == [msg |-> <<"unexpected EOF">>, chain |-> {}]
SyntaxErr == [msg |-> <<"invalid character">>, chain |-> {}]
ParseErr == [msg |-> <<"invalid URL escape">>, chain |-> {}]

\* fmt.Errorf("requisição falhou: %s", resp.Status)
StatusErr(s) == [msg |-> <<"requisição falhou: ", s>>, chain |-> {}]

ErrorsIs(e, target) == target \in e.chain

----------------------------------------------------------------------------
(* Values carried by the channel *)

NilData == [type |-> "nil", addr |-> 0]

AddrType(p) == IF p = "brasilapi" THEN "AddressBrasil" ELSE "AddressViaCep"

\* resultadoAPI{Origem: ..., Data: nil, Err: err}
FailMsg(p, e) == [Origem |-> p, Data |-> NilData, Err |-> e]

\* resultadoAPI{Origem: ..., Data: address}
OkMsgSwapped(p, a) ==
    [Origem |-> IF p = "brasilapi" THEN "viacep" ELSE "brasilapi",
     Data |-> [type |-> AddrType(p), addr |-> a], Err |-> NilErr]
OkMsg(p, a) ==
    [Origem |-> p, Data |-> [type |-> AddrType(p), addr |-> a], Err |-> NilErr]

NoMsg == [Origem |-> "", Data |-> NilData, Err |-> NilErr]

\* Upstream bodies: a JSON object carrying an address, or something that
\* is not JSON.  json.Unmarshal into the provider's struct.
Bodies == {<<"garbage">>} \cup {<<"json", a>> : a \in Addrs}
UnmarshalIgnoreErr(b) ==
    [ok |-> TRUE, addr |-> IF b[1] = "json" THEN b[2] ELSE 0]
Unmarshal(b) ==
    IF b[1] = "json" THEN [ok |-> TRUE, addr |-> b[2]]
    ELSE [ok |-> FALSE, addr |-> 0]

\* What an upstream does with one call: never answer, fail in transport, or
\* answer with a status and then stall, break or deliver a body.
NoBody == <<"none">>
PlanSet ==
    { [do |-> d, status |-> 0, read |-> "hang", body |-> NoBody]
        : d \in {"hang", "neterr"} }
    \cup
    { [do |-> "resp", status |-> s, read |-> rd, body |-> NoBody]
        : s \in UpstreamStatuses,
          rd \in {"hang", "readerr"} }
    \cup
    { [do |-> "resp", status |-> s, read |-> "ok", body |-> b]
        : s \in UpstreamStatuses, b \in Bodies }

----------------------------------------------------------------------------
(* Response mapping *)

NoResp == [status |-> 0, ctype |-> "", kind |-> "none", text |-> <<>>,
           origem |-> "", data |-> NilData]

\* http.Error(w, text, code)
HttpError(text, code) ==
    [status |-> code, ctype |-> "text/plain", kind |-> "text", text |-> text,
     origem |-> "", data |-> NilData]

\* w.Header().Set("Content-Type", "application/json") with nothing written
HeaderOnly ==
    [status |-> 0, ctype |-> "application/json", kind |-> "none",
     text |-> <<>>, origem |-> "", data |-> NilData]

\* w.WriteHeader(200); json.NewEncoder(w).Encode(resultadoAPI{Origem, Data})
\* The encoded data keeps the provider's own field names.
EncodeData(d) ==
    [type |-> IF d.type = "AddressBrasil" THEN "state/city/neighborhood/street"
              ELSE "uf/localidade/bairro/logradouro",
     addr |-> d.addr]

JsonOK(o, d) ==
    [status |-> StatusOK, ctype |-> "application/json", kind |-> "json",
     text |-> <<>>, origem |-> o, data |-> EncodeData(d)]

\* lines 136-158: the switch on result.Origem with its type assertions
MapSuccess(m) ==
    IF m.Origem = "viacep"
    THEN IF m.Data.type = "AddressViaCep" THEN JsonOK("viacep", m.Data)
         ELSE HeaderOnly
    ELSE IF m.Origem = "brasilapi"
    THEN IF m.Data.type = "AddressBrasil" THEN JsonOK("brasilapi", m.Data)
         ELSE HeaderOnly
    ELSE HttpError(<<"Erro interno: tipo inesperado de resposta">>,
                   StatusInternalServerError)

\* lines 127-158
MapResponseNoErrCheck(m) == MapSuccess(m)
MapResponseNoTimeout(m) ==
    IF m.Err # NilErr
    THEN HttpError(<<"Erro: ">> \o m.Err.msg, StatusInternalServerError)
    ELSE MapSuccess(m)
MapResponse(m) ==
    IF m.Err # NilErr
    THEN IF ErrorsIs(m.Err, "DeadlineExceeded")
         THEN HttpError(<<"Erro: tempo de espera excedido">>,
                        StatusRequestTimeout)
         ELSE HttpError(<<"Erro: ">> \o m.Err.msg, StatusInternalServerError)
    ELSE MapSuccess(m)

\* result := <-resChan : the oldest buffered message
RecvLast(ch) == [msg |-> ch[Len(ch)], rest |-> SubSeq(ch, 1, Len(ch) - 1)]
Recv(ch) == [msg |-> Head(ch), rest |-> Tail(ch)]

----------------------------------------------------------------------------
(* State *)

VARIABLES
    path,        \* r.URL.Path of the request, as tokens
    plan,        \* what each upstream will do with this request's call
    parentDone,  \* r.Context() is cancelled (client went away)
    disc,        \* history: the race as it stood when the client went away
    hpc,         \* position of handleCEP
    ctx,         \* the WithTimeout context: none, active, or its Err()
    now,         \* ticks elapsed since the context was created
    cancelCalls, \* number of times cancel() was called
    chanMade,    \* resChan exists
    resChan,     \* buffered contents of resChan
    result,      \* the handler's local `result`
    resp,        \* what the handler wrote to the ResponseWriter
    gpc,         \* position of each provider goroutine
    gres,        \* the message a goroutine is about to send
    bodyOpen,    \* state of resp.Body of each upstream call
    calls,       \* number of http.DefaultClient.Do calls issued
    sentLog,     \* history: every message enqueued and its sender, in order
    recvCount    \* history: number of receives from resChan

vars == <<path, plan, parentDone, disc, hpc, ctx, now, cancelCalls,
          chanMade,
          resChan, result, resp, gpc, gres, bodyOpen, calls, sentLog,
          recvCount>>

envVars == <<path, plan>>
handlerVars == <<hpc, result, resp, recvCount>>
ctxVars == <<ctx, now, cancelCalls, parentDone, disc>>
chanVars == <<chanMade, resChan, sentLog>>
goVars == <<gpc, gres, bodyOpen, calls>>

CtxDone(c) == c \in {"DeadlineExceeded", "Canceled"}

\* The context the upstream request is bound to:
\* http.NewRequestWithContext(ctx, "GET", url, nil)
ReqCtxBackground(r) == "active"
ReqCtx(r) == ctx[r]

\* brasilapi checks resp.StatusCode != http.StatusOK (line 51);
\* fetchFromViaCep has no such check.
ChecksStatus(p) == p = "brasilapi"

StatusText(s) == IF s = StatusOK THEN "200 OK" ELSE "503 Service Unavailable"

\* defer resp.Body.Close() is registered after the status check in
\* fetchFromBrasilAPI (line 54) and right after Do in fetchFromViaCep (83).
ClosedOnStatusReturn(p) == ~ChecksStatus(p)

\* Nothing recorded: the client is still there.
NoDisc == [at |-> "never", sent |-> 0, ready |-> {}]

InitRest ==
    /\ parentDone = [r \in Reqs |-> FALSE]
    /\ disc = [r \in Reqs |-> NoDisc]
    /\ ctx = [r \in Reqs |-> "none"]
    /\ now = [r \in Reqs |-> 0]
    /\ cancelCalls = [r \in Reqs |-> 0]
    /\ chanMade = [r \in Reqs |-> FALSE]
    /\ resChan = [r \in Reqs |-> <<>>]
    /\ result = [r \in Reqs |-> NoMsg]
    /\ resp = [r \in Reqs |-> NoResp]
    /\ gpc = [r \in Reqs |-> [p \in Providers |-> "idle"]]
    /\ gres = [r \in Reqs |-> [p \in Providers |-> NoMsg]]
    /\ bodyOpen = [r \in Reqs |-> [p \in Providers |-> "none"]]
    /\ calls = [r \in Reqs |-> [p \in Providers |-> 0]]
    /\ sentLog = [r \in Reqs |-> <<>>]
    /\ recvCount = [r \in Reqs |-> 0]

\* An absent request carries a fixed path and plan, so that it adds no states.
IdlePlan == [do |-> "hang", status |-> 0, read |-> "hang", body |-> NoBody]
IdlePath == <<"/", "cep">>

\* One request arrives; the server is idle otherwise.
Init ==
    /\ path \in [Reqs -> Paths]
    /\ plan \in [Reqs -> [Providers -> PlanSet]]
    /\ \A r \in Reqs \ {1} :
          path[r] = IdlePath /\ \A p \in Providers : plan[r][p] = IdlePlan
    /\ hpc = [r \in Reqs |-> IF r = 1 THEN "start" ELSE "absent"]
    /\ InitRest

----------------------------------------------------------------------------
(* The handler, lines 99-159 *)

\* lines 100-123: path check, then context, channel and the two goroutines
HandleEntry(r) ==
    /\ hpc[r] = "start"
    /\ IF ~WellFormed(Split(path[r]))
       THEN /\ resp' = [resp EXCEPT ![r] =
                           HttpError(<<"Uso correto: /cep/{cep}">>,
                                     StatusBadRequest)]
            /\ hpc' = [hpc EXCEPT ![r] = "done"]
            /\ UNCHANGED <<ctx, now, chanMade, gpc>>
       ELSE /\ ctx' = [ctx EXCEPT ![r] =
                          IF parentDone[r] THEN "Canceled" ELSE "active"]
            /\ now' = [now EXCEPT ![r] = 0]
            /\ chanMade' = [chanMade EXCEPT ![r] = TRUE]
            /\ gpc' = [gpc EXCEPT ![r] = [p \in Providers |-> "spawned"]]
            /\ hpc' = [hpc EXCEPT ![r] = "recv"]
            /\ UNCHANGED resp
    /\ UNCHANGED <<envVars, parentDone, disc, cancelCalls, resChan, result,
                   gres, bodyOpen, calls, sentLog, recvCount>>

\* line 125: result := <-resChan
Receive(r) ==
    /\ hpc[r] = "recv"
    /\ Len(resChan[r]) > 0
    /\ result' = [result EXCEPT ![r] = Recv(resChan[r]).msg]
    /\ resChan' = [resChan EXCEPT ![r] = Recv(resChan[r]).rest]
    /\ recvCount' = [recvCount EXCEPT ![r] = @ + 1]
    /\ hpc' = [hpc EXCEPT ![r] = "cancel"]
    /\ UNCHANGED <<envVars, ctxVars, chanMade, sentLog, resp, goVars>>

\* line 126: cancel()
CancelSkipped(r) ==
    /\ hpc[r] = "cancel"
    /\ hpc' = [hpc EXCEPT ![r] = "respond"]
    /\ UNCHANGED <<envVars, ctxVars, chanVars, result, resp, recvCount,
                   goVars>>
CancelTwice(r) ==
    /\ hpc[r] = "cancel"
    /\ cancelCalls' = [cancelCalls EXCEPT ![r] = @ + 2]
    /\ ctx' = [ctx EXCEPT ![r] = IF @ = "active" THEN "Canceled" ELSE @]
    /\ hpc' = [hpc EXCEPT ![r] = "respond"]
    /\ UNCHANGED <<envVars, now, parentDone, disc, chanVars, result, resp,
                   recvCount, goVars>>
Cancel(r) ==
    /\ hpc[r] = "cancel"
    /\ cancelCalls' = [cancelCalls EXCEPT ![r] = @ + 1]
    /\ ctx' = [ctx EXCEPT ![r] = IF @ = "active" THEN "Canceled" ELSE @]
    /\ hpc' = [hpc EXCEPT ![r] = "respond"]
    /\ UNCHANGED <<envVars, now, parentDone, disc, chanVars, result, resp,
                   recvCount, goVars>>

\* lines 127-159: map the consumed message to a response and return
Respond(r) ==
    /\ hpc[r] = "respond"
    /\ resp' = [resp EXCEPT ![r] = MapResponse(result[r])]
    /\ hpc' = [hpc EXCEPT ![r] = "done"]
    /\ UNCHANGED <<envVars, ctxVars, chanVars, result, recvCount, goVars>>

----------------------------------------------------------------------------
(* The context: time and the client *)

\* context.WithTimeout(r.Context(), 1*time.Second): the timer fires after
\* Timeout ticks unless the context is already finished.
Tick(r) ==
    /\ ctx[r] = "active"
    /\ now[r] < Timeout
    /\ now' = [now EXCEPT ![r] = @ + 1]
    /\ ctx' = [ctx EXCEPT ![r] =
                  IF now[r] + 1 = Timeout THEN "DeadlineExceeded" ELSE @]
    /\ UNCHANGED <<envVars, parentDone, disc, cancelCalls, chanVars,
                   handlerVars, goVars>>

\* The race at this moment: where the handler is, how many messages were
\* enqueued, and which goroutines hold a success from a call that returned.
Snapshot(r) ==
    [at |-> hpc[r], sent |-> Len(sentLog[r]),
     ready |-> {p \in Providers :
                  gpc[r][p] \in {"send", "done"} /\ gres[r][p].Err = NilErr}]

\* The client goes away: r.Context() is cancelled, and with it the child.
ClientDisconnectDetached(r) ==
    /\ hpc[r] \in {"start", "recv", "cancel", "respond"}
    /\ ~parentDone[r]
    /\ parentDone' = [parentDone EXCEPT ![r] = TRUE]
    /\ disc' = [disc EXCEPT ![r] = Snapshot(r)]
    /\ UNCHANGED <<envVars, ctx, now, cancelCalls, chanVars, handlerVars,
                   goVars>>
ClientDisconnect(r) ==
    /\ hpc[r] \in {"start", "recv", "cancel", "respond"}
    /\ ~parentDone[r]
    /\ parentDone' = [parentDone EXCEPT ![r] = TRUE]
    /\ disc' = [disc EXCEPT ![r] = Snapshot(r)]
    /\ ctx' = [ctx EXCEPT ![r] = IF @ = "active" THEN "Canceled" ELSE @]
    /\ UNCHANGED <<envVars, now, cancelCalls, chanVars, handlerVars, goVars>>

----------------------------------------------------------------------------
(* The provider goroutines, lines 108-123, running lines 38-97 *)

Finish(r, p, m) ==
    /\ gres' = [gres EXCEPT ![r][p] = m]
    /\ gpc' = [gpc EXCEPT ![r][p] = "send"]

\* lines 40-47 / 72-79: build the request; on success call Do
FetchBegin(r, p) ==
    /\ gpc[r][p] = "spawned"
    /\ IF UrlParses(CepOf(path[r]))
       THEN /\ gpc' = [gpc EXCEPT ![r][p] = "do"]
            /\ calls' = [calls EXCEPT ![r][p] = @ + 1]
            /\ UNCHANGED gres
       ELSE /\ Finish(r, p, FailMsg(p, ErrorfV("error creating request: ",
                                               ParseErr)))
            /\ UNCHANGED calls
    /\ UNCHANGED <<envVars, ctxVars, chanVars, handlerVars, bodyOpen>>

\* Do returns the context's error once the request's context is finished
DoAbort(r, p) ==
    /\ gpc[r][p] = "do"
    /\ CtxDone(ReqCtx(r))
    /\ Finish(r, p, FailMsg(p, UrlError(CtxErrValue(ReqCtx(r)))))
    /\ UNCHANGED <<envVars, ctxVars, chanVars, handlerVars, bodyOpen, calls>>

\* Do fails in transport (DNS, connection)
DoFail(r, p) ==
    /\ gpc[r][p] = "do"
    /\ ~CtxDone(ReqCtx(r))
    /\ plan[r][p].do = "neterr"
    /\ Finish(r, p, FailMsg(p, UrlError(NetErr)))
    /\ UNCHANGED <<envVars, ctxVars, chanVars, handlerVars, bodyOpen, calls>>

\* Do returns a response; lines 51-54 / 83
DoRespond(r, p) ==
    /\ gpc[r][p] = "do"
    /\ ~CtxDone(ReqCtx(r))
    /\ plan[r][p].do = "resp"
    /\ IF ChecksStatus(p) /\ plan[r][p].status # StatusOK
       THEN /\ Finish(r, p, FailMsg(p, StatusErr(
                                          StatusText(plan[r][p].status))))
            /\ bodyOpen' = [bodyOpen EXCEPT ![r][p] =
                               IF ClosedOnStatusReturn(p) THEN "closed"
                               ELSE "open"]
       ELSE /\ gpc' = [gpc EXCEPT ![r][p] = "read"]
            /\ bodyOpen' = [bodyOpen EXCEPT ![r][p] = "open"]
            /\ UNCHANGED gres
    /\ UNCHANGED <<envVars, ctxVars, chanVars, handlerVars, calls>>

\* io.ReadAll fails because the context finished while the body was read
ReadAbort(r, p) ==
    /\ gpc[r][p] = "read"
    /\ CtxDone(ReqCtx(r))
    /\ Finish(r, p, FailMsg(p, ErrorfV("error reading response: ",
                                       CtxErrValue(ReqCtx(r)))))
    /\ bodyOpen' = [bodyOpen EXCEPT ![r][p] = "closed"]
    /\ UNCHANGED <<envVars, ctxVars, chanVars, handlerVars, calls>>

\* io.ReadAll fails on its own (connection broken mid-body)
ReadFail(r, p) ==
    /\ gpc[r][p] = "read"
    /\ ~CtxDone(ReqCtx(r))
    /\ plan[r][p].read = "readerr"
    /\ Finish(r, p, FailMsg(p, ErrorfV("error reading response: ", EofErr)))
    /\ bodyOpen' = [bodyOpen EXCEPT ![r][p] = "closed"]
    /\ UNCHANGED <<envVars, ctxVars, chanVars, handlerVars, calls>>

\* io.ReadAll succeeds; json.Unmarshal; lines 60-67 / 89-95
ReadOk(r, p) ==
    /\ gpc[r][p] = "read"
    /\ ~CtxDone(ReqCtx(r))
    /\ plan[r][p].read = "ok"
    /\ LET u == Unmarshal(plan[r][p].body) IN
         IF u.ok THEN Finish(r, p, OkMsg(p, u.addr))
         ELSE Finish(r, p, FailMsg(p, ErrorfV("error reading response: ",
                                              SyntaxErr)))
    /\ bodyOpen' = [bodyOpen EXCEPT ![r][p] = "closed"]
    /\ UNCHANGED <<envVars, ctxVars, chanVars, handlerVars, calls>>

\* resChan <- resultadoAPI{...}: possible only while the buffer has room
SendShared(r, p) ==
    /\ gpc[r][p] = "send"
    /\ Len(resChan[1]) < ChanCap
    /\ resChan' = [resChan EXCEPT ![1] = Append(@, gres[r][p])]
    /\ sentLog' = [sentLog EXCEPT ![1] =
                      Append(@, [by |-> p, msg |-> gres[r][p]])]
    /\ gpc' = [gpc EXCEPT ![r][p] = "done"]
    /\ UNCHANGED <<envVars, ctxVars, chanMade, handlerVars, gres, bodyOpen,
                   calls>>
SendNoReturn(r, p) ==
    /\ gpc[r][p] = "send"
    /\ Len(resChan[r]) < ChanCap
    /\ resChan' = [resChan EXCEPT ![r] = Append(@, gres[r][p])]
    /\ sentLog' = [sentLog EXCEPT ![r] =
                      Append(@, [by |-> p, msg |-> gres[r][p]])]
    /\ gpc' = [gpc EXCEPT ![r][p] =
                  IF gres[r][p].Err # NilErr THEN "send" ELSE "done"]
    /\ UNCHANGED <<envVars, ctxVars, chanMade, handlerVars, gres, bodyOpen,
                   calls>>
Send(r, p) ==
    /\ gpc[r][p] = "send"
    /\ Len(resChan[r]) < ChanCap
    /\ resChan' = [resChan EXCEPT ![r] = Append(@, gres[r][p])]
    /\ sentLog' = [sentLog EXCEPT ![r] =
                      Append(@, [by |-> p, msg |-> gres[r][p]])]
    /\ gpc' = [gpc EXCEPT ![r][p] = "done"]
    /\ UNCHANGED <<envVars, ctxVars, chanMade, handlerVars, gres, bodyOpen,
                   calls>>

----------------------------------------------------------------------------
Next ==
    \E r \in Reqs :
        \/ HandleEntry(r)
        \/ Receive(r)
        \/ Cancel(r)
        \/ Respond(r)
        \/ Tick(r)
        \/ ClientDisconnect(r)
        \/ \E p \in Providers :
              \/ FetchBegin(r, p)
              \/ DoAbort(r, p)
              \/ DoFail(r, p)
              \/ DoRespond(r, p)
              \/ ReadAbort(r, p)
              \/ ReadFail(r, p)
              \/ ReadOk(r, p)
              \/ Send(r, p)

Spec == Init /\ [][Next]_vars

\* Scheduling: the Go scheduler runs every runnable goroutine, timers fire,
\* and a call bound to a finished context returns.  Nothing obliges an
\* upstream to answer.
Fairness ==
    \A r \in Reqs :
        /\ WF_vars(HandleEntry(r))
        /\ WF_vars(Receive(r))
        /\ WF_vars(Cancel(r))
        /\ WF_vars(Respond(r))
        /\ WF_vars(Tick(r))
        /\ \A p \in Providers :
              /\ WF_vars(FetchBegin(r, p))
              /\ WF_vars(DoAbort(r, p))
              /\ WF_vars(ReadAbort(r, p))
              /\ WF_vars(Send(r, p))

FairSpec == Init /\ [][Next]_vars /\ Fairness

TypeOK ==
    /\ \A r \in Reqs :
          /\ hpc[r] \in {"absent", "start", "recv", "cancel", "respond", "done"}
          /\ ctx[r] \in {"none", "active", "DeadlineExceeded", "Canceled"}
          /\ now[r] \in 0..Timeout
          /\ Len(resChan[r]) <= ChanCap
          /\ \A p \in Providers :
                gpc[r][p] \in {"idle", "spawned", "do", "read", "send", "done"}

----------------------------------------------------------------------------
(* The response mapping on its own: lines 127-159 applied to any message a   *)
(* resultadoAPI value can hold, whether or not the goroutines build it.      *)

MapperOrigins == {"brasilapi", "viacep", "other"}
MapperData ==
    {NilData} \cup
    { [type |-> t, addr |-> a] : t \in {"AddressBrasil", "AddressViaCep"},
                                 a \in Addrs }
MapperErrs ==
    { NilErr,
      UrlError(CtxErrValue("DeadlineExceeded")),
      UrlError(CtxErrValue("Canceled")),
      UrlError(NetErr),
      StatusErr(StatusText(503)),
      ErrorfV("error reading response: ", CtxErrValue("DeadlineExceeded")),
      ErrorfV("error reading response: ", SyntaxErr) }
MapperInputs ==
    { [Origem |-> o, Data |-> d, Err |-> e]
        : o \in MapperOrigins, d \in MapperData, e \in MapperErrs }

MapperInit ==
    /\ path = [r \in Reqs |-> IF r = 1 THEN <<"/", "cep", "/", "01001000">>
                              ELSE IdlePath]
    /\ plan = [r \in Reqs |-> [p \in Providers |-> IdlePlan]]
    /\ hpc = [r \in Reqs |-> IF r = 1 THEN "respond" ELSE "absent"]
    /\ \E m \in MapperInputs :
          result = [r \in Reqs |-> IF r = 1 THEN m ELSE NoMsg]
    /\ parentDone = [r \in Reqs |-> FALSE]
    /\ disc = [r \in Reqs |-> NoDisc]
    /\ ctx = [r \in Reqs |-> IF r = 1 THEN "Canceled" ELSE "none"]
    /\ now = [r \in Reqs |-> 0]
    /\ cancelCalls = [r \in Reqs |-> IF r = 1 THEN 1 ELSE 0]
    /\ chanMade = [r \in Reqs |-> r = 1]
    /\ resChan = [r \in Reqs |-> <<>>]
    /\ resp = [r \in Reqs |-> NoResp]
    /\ gpc = [r \in Reqs |-> [p \in Providers |-> "idle"]]
    /\ gres = [r \in Reqs |-> [p \in Providers |-> NoMsg]]
    /\ bodyOpen = [r \in Reqs |-> [p \in Providers |-> "none"]]
    /\ calls = [r \in Reqs |-> [p \in Providers |-> 0]]
    /\ sentLog = [r \in Reqs |-> <<>>]
    /\ recvCount = [r \in Reqs |-> IF r = 1 THEN 1 ELSE 0]

MapperNext == \E r \in Reqs : Respond(r)

MapperSpec == MapperInit /\ [][MapperNext]_vars

----------------------------------------------------------------------------
(* Properties *)

WellFormedReq(r) == WellFormed(Split(path[r]))

Finished(r) == hpc[r] = "done" /\ WellFormedReq(r)

Range(f) == {f[i] : i \in DOMAIN f}

\* The text of the error says the deadline expired, however it was wrapped.
DeadlineCaused(e) == "context deadline exceeded" \in Range(e.msg)

TimeoutResp == HttpError(<<"Erro: tempo de espera excedido">>,
                         StatusRequestTimeout)

\* C1: a well-formed request consumes exactly one message and ends in exactly
\* one of Success (200), TimedOut (408), UpstreamError (500); nothing is
\* written before the handler ends, the end state is absorbing, and no later
\* message of the loser changes the response.
C1_OneOutcome ==
    /\ [](\A r \in Reqs :
            /\ recvCount[r] <= 1
            /\ hpc[r] \in {"start", "recv"} => recvCount[r] = 0
            /\ hpc[r] # "done" => resp[r] = NoResp
            /\ Finished(r) =>
                  /\ recvCount[r] = 1
                  /\ resp[r].status \in {StatusOK, StatusRequestTimeout,
                                         StatusInternalServerError})
    /\ [][\A r \in Reqs :
            /\ hpc[r] = "done" =>
                  hpc'[r] = "done" /\ resp'[r] = resp[r]
                  /\ result'[r] = result[r] /\ recvCount'[r] = recvCount[r]
            /\ hpc'[r] # hpc[r] =>
                  <<hpc[r], hpc'[r]>> \in
                      {<<"start", "recv">>, <<"start", "done">>,
                       <<"recv", "cancel">>, <<"cancel", "respond">>,
                       <<"respond", "done">>}]_vars

\* C1 witness: the handler has answered 500 from a failure and the loser's
\* success sits unread in the channel, enqueued after the response.
C1_Witness ==
    /\ Finished(1)
    /\ resp[1].status = StatusInternalServerError
    /\ Len(sentLog[1]) = 2
    /\ Len(resChan[1]) = 1
    /\ resChan[1][1].Err = NilErr

\* C2: the response is a function of the first message enqueued (FIFO): the
\* handler's result is that message; a non-deadline failure there gives 500
\* with that failure's text, whatever the other provider sent.
C2_FirstArrival ==
    \A r \in Reqs :
        Finished(r) =>
            LET f == sentLog[r][1].msg IN
            /\ Len(sentLog[r]) >= 1
            /\ result[r] = f
            /\ (f.Err # NilErr /\ ~ErrorsIs(f.Err, "DeadlineExceeded")) =>
                  resp[r] = HttpError(<<"Erro: ">> \o f.Err.msg,
                                      StatusInternalServerError)
            /\ resp[r].status = StatusOK => f.Err = NilErr
            /\ resp[r].status = StatusRequestTimeout => f.Err # NilErr

\* C2 witness: both messages were enqueued before the receive, the first a
\* transport failure of one provider, the second a success of the other.
C2_Witness ==
    /\ Finished(1)
    /\ Len(sentLog[1]) = 2
    /\ sentLog[1][1].msg.Err = UrlError(NetErr)
    /\ sentLog[1][2].msg.Err = NilErr
    /\ resp[1].status = StatusInternalServerError
    /\ resChan[1] = <<sentLog[1][2].msg>>

\* C2 witness companion: both providers failed, differently.
C2_BothFail ==
    /\ Finished(1)
    /\ Len(sentLog[1]) = 2
    /\ sentLog[1][1].msg.Err # NilErr
    /\ sentLog[1][2].msg.Err # NilErr
    /\ sentLog[1][1].msg.Err # sentLog[1][2].msg.Err

\* C3: whenever the consumed failure was caused by the request's deadline
\* expiring (in Do or while the body is read), the response is 408.
C3_DeadlineIs408 ==
    \A r \in Reqs :
        (Finished(r) /\ DeadlineCaused(result[r].Err)) => resp[r] = TimeoutResp

\* C4: when the deadline fires and neither provider has produced a response
\* (nor failed in transport) by then, every upstream call fails with the
\* deadline error, and the request is answered 408 from the first of them.
C4_SilentProviders ==
    \A r \in Reqs :
        ( /\ WellFormedReq(r)
          /\ UrlParses(CepOf(path[r]))
          /\ ctx[r] = "DeadlineExceeded"
          /\ \A p \in Providers :
                bodyOpen[r][p] = "none" /\ plan[r][p].do # "neterr" )
        =>
        /\ \A p \in Providers :
              gpc[r][p] \in {"send", "done"} =>
                 /\ gres[r][p].Err = UrlError(CtxErrValue("DeadlineExceeded"))
                 /\ gres[r][p].Data = NilData
        /\ \A i \in 1..Len(sentLog[r]) :
              ErrorsIs(sentLog[r][i].msg.Err, "DeadlineExceeded")
        /\ hpc[r] = "done" =>
              result[r] = sentLog[r][1].msg /\ resp[r] = TimeoutResp

\* C4 witness: both providers never answer; both calls failed with the
\* deadline error and the request was answered 408.
C4_Witness ==
    /\ Finished(1)
    /\ \A p \in Providers : plan[1][p].do = "hang" /\ gpc[1][p] = "done"
    /\ ctx[1] = "DeadlineExceeded"
    /\ Len(sentLog[1]) = 2
    /\ resp[1] = TimeoutResp

\* C5: every request that arrives is eventually answered; and while the
\* handler waits on an empty channel after the context finished, every
\* goroutine that has not sent yet has a step of its own enabled (it waits
\* for no upstream), so a message is on its way.
C5_Terminates ==
    /\ \A r \in Reqs : (hpc[r] = "start") ~> (hpc[r] = "done")
    /\ [](\A r \in Reqs :
            (hpc[r] = "recv" /\ CtxDone(ctx[r]) /\ resChan[r] = <<>>) =>
               /\ \E p \in Providers : gpc[r][p] # "done"
               /\ \A p \in Providers :
                     gpc[r][p] # "done" =>
                        ENABLED (FetchBegin(r, p) \/ DoAbort(r, p)
                                 \/ ReadAbort(r, p) \/ Send(r, p)))

\* C5 witness: one provider never answers and the other stalls in its body;
\* the deadline fired and the handler has answered all the same.
C5_Witness ==
    /\ Finished(1)
    /\ plan[1]["brasilapi"].do = "hang"
    /\ plan[1]["viacep"].do = "resp" /\ plan[1]["viacep"].read = "hang"
    /\ bodyOpen[1]["viacep"] = "closed"
    /\ ctx[1] = "DeadlineExceeded"
    /\ resp[1].status # 0

\* C6: for either provider, an upstream reply with a non-success status
\* makes that provider's message a failure, and never leads to a 200 with
\* that provider as origin.
C6_StatusFails ==
    \A r \in Reqs : \A p \in Providers :
        (plan[r][p].status # StatusOK
           /\ bodyOpen[r][p] # "none") =>
            /\ gpc[r][p] \in {"send", "done"} => gres[r][p].Err # NilErr
            /\ ~(resp[r].status = StatusOK /\ resp[r].origem = p)

\* A path read directly: it has other than two separators, or nothing after
\* the last one.
Slashes(p) == Cardinality({i \in DOMAIN p : p[i] = "/"})
MalformedPath(p) == Slashes(p) # 2 \/ p[Len(p)] = "/"

\* C7: a request whose path is not /cep/{non-empty} is answered 400, and at
\* no point has a context, a channel, a goroutine or an upstream call.
C7_Malformed ==
    \A r \in Reqs :
        MalformedPath(path[r]) =>
            /\ ctx[r] = "none"
            /\ ~chanMade[r]
            /\ resChan[r] = <<>> /\ sentLog[r] = <<>>
            /\ \A p \in Providers : gpc[r][p] = "idle" /\ calls[r][p] = 0
            /\ hpc[r] = "done" =>
                  resp[r] = HttpError(<<"Uso correto: /cep/{cep}">>,
                                      StatusBadRequest)

\* C7 witness: /cep/ (empty code) has been answered 400.
C7_Witness ==
    /\ path[1] = <<"/", "cep", "/">>
    /\ hpc[1] = "done"
    /\ resp[1].status = StatusBadRequest

\* C8: 200 is answered exactly when the consumed message is a success, and
\* then origin is the provider whose goroutine enqueued the first message
\* and data is the address that provider's upstream sent, in its own shape.
C8_SuccessEnvelope ==
    \A r \in Reqs :
        Finished(r) =>
            /\ (resp[r].status = StatusOK) <=> (result[r].Err = NilErr)
            /\ resp[r].status = StatusOK =>
                  LET w == sentLog[r][1].by IN
                  /\ resp[r].kind = "json"
                  /\ resp[r].ctype = "application/json"
                  /\ resp[r].origem = w
                  /\ resp[r].data =
                        EncodeData([type |-> AddrType(w),
                                    addr |-> plan[r][w].body[2]])
                  /\ plan[r][w].body[1] = "json"

\* C8 witness: brasilapi succeeded before viacep, with different addresses.
C8_Witness ==
    /\ Finished(1)
    /\ Len(sentLog[1]) = 2
    /\ sentLog[1][1].by = "brasilapi" /\ sentLog[1][2].by = "viacep"
    /\ sentLog[1][1].msg.Err = NilErr /\ sentLog[1][2].msg.Err = NilErr
    /\ sentLog[1][1].msg.Data.addr # sentLog[1][2].msg.Data.addr
    /\ resp[1].status = StatusOK /\ resp[1].origem = "brasilapi"

Recognised(m) ==
    \/ m.Origem = "viacep" /\ m.Data.type = "AddressViaCep"
    \/ m.Origem = "brasilapi" /\ m.Data.type = "AddressBrasil"

C10_SendersEnd ==
    /\ [](\A r \in Reqs : \A p \in Providers :
            gpc[r][p] = "send" => Len(resChan[r]) < ChanCap)
    /\ \A r \in Reqs :
          chanMade[r] ~> (\A p \in Providers : gpc[r][p] = "done")

\* C10 witness: the handler has returned, and the loser, whose call was
\* ended by the handler's cancel(), has sent its failure and ended.
C10_Witness ==
    /\ Finished(1)
    /\ ~parentDone[1]
    /\ \A p \in Providers : gpc[1][p] = "done"
    /\ Len(sentLog[1]) = 2
    /\ sentLog[1][2].msg.Err = UrlError(CtxErrValue("Canceled"))
    /\ resChan[1] = <<sentLog[1][2].msg>>

\* Messages request r's goroutine p has enqueued so far.
SentBy(r, p) == {i \in 1..Len(sentLog[r]) : sentLog[r][i].by = p}

\* Order of the positions a provider goroutine goes through.
GoRank(pc) ==
    CASE pc = "idle" -> 0
      [] pc = "spawned" -> 1
      [] pc = "do" -> 2
      [] pc = "read" -> 3
      [] pc = "send" -> 4
      [] pc = "done" -> 5

\* C11: per request each upstream client is called at most once and never
\* again after a failure (a goroutine only moves forward), each goroutine
\* enqueues exactly one message by the time it ends and none before, so at
\* most 2 messages are ever sent and the channel never holds more than 2.
C11_OneMessageEach ==
    /\ [](\A r \in Reqs :
            /\ Len(sentLog[r]) <= 2
            /\ Len(resChan[r]) <= 2
            /\ \A p \in Providers :
                  /\ calls[r][p] <= 1
                  /\ gpc[r][p] \in {"do", "read"} => calls[r][p] = 1
                  /\ Cardinality(SentBy(r, p)) =
                        (IF gpc[r][p] = "done" THEN 1 ELSE 0)
                  /\ \A i \in SentBy(r, p) : sentLog[r][i].msg = gres[r][p])
    /\ [][\A r \in Reqs : \A p \in Providers :
            /\ gpc'[r][p] # gpc[r][p] => GoRank(gpc'[r][p]) > GoRank(gpc[r][p])
            /\ calls'[r][p] # calls[r][p] =>
                  gpc[r][p] = "spawned" /\ gpc'[r][p] = "do"]_vars

\* C11 witness: both goroutines ended after a failed call each, two
\* messages were sent in all, one of them still buffered.
C11_Witness ==
    /\ hpc[1] = "done"
    /\ \A p \in Providers :
          gpc[1][p] = "done" /\ calls[1][p] = 1 /\ gres[1][p].Err # NilErr
    /\ Len(sentLog[1]) = 2
    /\ Len(resChan[1]) = 1

\* The upstream of request r, provider p, is one that breaks in transport,
\* breaks while the body is read, or delivers a body that is not JSON.
Breaks(r, p) ==
    \/ plan[r][p].do = "neterr"
    \/ plan[r][p].do = "resp" /\ plan[r][p].read = "readerr"
    \/ plan[r][p].do = "resp" /\ plan[r][p].read = "ok"
         /\ plan[r][p].body[1] # "json"

\* C15: in both clients a transport failure, a body-read failure and a
\* decode failure end the call with an error: the goroutine's message is a
\* failure with nil data, never a success, and a goroutine that has ended
\* has enqueued it.
C15_FailuresAreErrors ==
    \A r \in Reqs : \A p \in Providers :
        (Breaks(r, p) /\ gpc[r][p] \in {"send", "done"}) =>
            /\ gres[r][p].Err # NilErr
            /\ gres[r][p].Data = NilData
            /\ gres[r][p].Origem = p
            /\ gpc[r][p] = "done" =>
                  \E i \in 1..Len(sentLog[r]) :
                      sentLog[r][i] = [by |-> p, msg |-> gres[r][p]]

\* C15 witness: viacep delivered a body that is not JSON, its goroutine
\* enqueued the decode failure first and the request was answered 500.
C15_Witness ==
    /\ hpc[1] = "done"
    /\ plan[1]["viacep"].read = "ok" /\ plan[1]["viacep"].body[1] # "json"
    /\ gpc[1]["viacep"] = "done"
    /\ sentLog[1][1] =
          [by |-> "viacep",
           msg |-> FailMsg("viacep",
                           ErrorfV("error reading response: ", SyntaxErr))]
    /\ resp[1].status = StatusInternalServerError

\* C17: in both clients, once the client function has returned, the body
\* of every response obtained from Do has been closed.
C17_BodyClosed ==
    \A r \in Reqs : \A p \in Providers :
        gpc[r][p] \in {"send", "done"} => bodyOpen[r][p] # "open"

\* C12: on every path that created the context, cancel() is called right
\* after the first message is consumed and before anything is written, so
\* the context is finished when the handler returns; a loser call still in
\* flight after that ends in a failure, and does end.
C12_CancelBeforeWrite ==
    /\ [](\A r \in Reqs :
            /\ hpc[r] \in {"recv", "cancel"} =>
                  cancelCalls[r] = 0 /\ resp[r] = NoResp
            /\ hpc[r] = "respond" =>
                  cancelCalls[r] = 1 /\ CtxDone(ctx[r]) /\ resp[r] = NoResp
            /\ (hpc[r] = "done" /\ chanMade[r]) =>
                  cancelCalls[r] = 1 /\ CtxDone(ctx[r]))
    /\ [][\A r \in Reqs :
            /\ recvCount'[r] # recvCount[r] => hpc'[r] = "cancel"
            /\ (hpc[r] = "cancel" /\ hpc'[r] # "cancel") =>
                  /\ cancelCalls'[r] = cancelCalls[r] + 1
                  /\ resp'[r] = resp[r]
                  /\ CtxDone(ctx'[r])
            /\ \A p \in Providers :
                  (cancelCalls[r] >= 1 /\ gpc[r][p] \in {"do", "read"}
                     /\ gpc'[r][p] # gpc[r][p]) =>
                      /\ gpc'[r][p] = "send"
                      /\ gres'[r][p].Err # NilErr
                      /\ gres'[r][p].Data = NilData]_vars
    /\ \A r \in Reqs : \A p \in Providers :
          (cancelCalls[r] >= 1 /\ gpc[r][p] \in {"do", "read"}) ~>
              (gpc[r][p] = "done" /\ gres[r][p].Err # NilErr)

\* C12 witness: brasilapi won with a success; viacep, which would have
\* answered 200 with a JSON body, was still in flight when the handler
\* cancelled, and ended with the cancellation error.
C12_Witness ==
    /\ Finished(1)
    /\ ~parentDone[1]
    /\ resp[1].status = StatusOK /\ resp[1].origem = "brasilapi"
    /\ plan[1]["viacep"].do = "resp" /\ plan[1]["viacep"].status = StatusOK
    /\ plan[1]["viacep"].read = "ok" /\ plan[1]["viacep"].body[1] = "json"
    /\ gpc[1]["viacep"] = "done"
    /\ DOMAIN gres[1]["viacep"].Err.msg # {}
    /\ "context canceled" \in Range(gres[1]["viacep"].Err.msg)

\* C13 as stated: cancel() is called at most once, after the receive, and
\* an active context becomes cancelled by that call and by nothing else; a
\* finished context never changes.
C13_OnlyCoordinatorCancels ==
    /\ [](\A r \in Reqs : cancelCalls[r] <= 1)
    /\ [][\A r \in Reqs :
            /\ CtxDone(ctx[r]) => ctx'[r] = ctx[r]
            /\ (ctx[r] = "active" /\ ctx'[r] = "Canceled") =>
                  (hpc[r] = "cancel"
                     /\ cancelCalls'[r] = cancelCalls[r] + 1)]_vars

\* C13 amended: cancel() is called at most once per request, only by the
\* handler right after its receive, and exactly once by the time a handler
\* that created the context is past that point; an active context becomes
\* cancelled by that call or by the cancellation of the inbound request's
\* context, and by nothing else; a finished context never changes, and a
\* cancel() on it leaves its error, the consumed message and the response
\* as they were.
C13_CancelOnce ==
    /\ [](\A r \in Reqs :
            /\ cancelCalls[r] <= 1
            /\ cancelCalls[r] = 1 <=>
                  (hpc[r] \in {"respond", "done"} /\ chanMade[r])
            /\ cancelCalls[r] = 1 => recvCount[r] = 1 /\ CtxDone(ctx[r]))
    /\ [][\A r \in Reqs :
            /\ CtxDone(ctx[r]) => ctx'[r] = ctx[r]
            /\ cancelCalls'[r] # cancelCalls[r] =>
                  /\ hpc[r] = "cancel"
                  /\ cancelCalls'[r] = cancelCalls[r] + 1
                  /\ result'[r] = result[r] /\ resp'[r] = resp[r]
            /\ (ctx[r] = "active" /\ ctx'[r] = "Canceled") =>
                  \/ hpc[r] = "cancel" /\ cancelCalls'[r] = cancelCalls[r] + 1
                  \/ ~parentDone[r] /\ parentDone'[r]]_vars

\* C13 witness: the deadline had fired before cancel() was called; the
\* context still reports the deadline and the request was answered 408.
C13_Witness ==
    /\ Finished(1)
    /\ cancelCalls[1] = 1
    /\ ctx[1] = "DeadlineExceeded"
    /\ resp[1] = TimeoutResp

\* C14 as stated: once the inbound request's context is cancelled the
\* derived context is finished too, and if that happened during the race
\* the answer is 200 only when a success had been enqueued first by then.
C14_NoSuccessAfterDisconnect ==
    \A r \in Reqs :
        /\ (parentDone[r] /\ chanMade[r]) => CtxDone(ctx[r])
        /\ (Finished(r) /\ disc[r].at = "recv"
              /\ resp[r].status = StatusOK) =>
              disc[r].sent >= 1 /\ sentLog[r][1].msg.Err = NilErr

\* C14 amended: once the inbound request's context is cancelled the derived
\* context is finished too and its clock no longer matters; every call in
\* flight ends in a failure, a message is delivered and the handler
\* returns; if the client went away during the race the answer is 200 only
\* when the first message is the success of a provider whose call had
\* already returned it by then (enqueued or about to be).
C14_DisconnectEndsRace ==
    /\ [](\A r \in Reqs :
            /\ (parentDone[r] /\ chanMade[r]) => CtxDone(ctx[r])
            /\ (Finished(r) /\ disc[r].at = "recv"
                  /\ resp[r].status = StatusOK) =>
                  sentLog[r][1].by \in disc[r].ready
            /\ \A p \in Providers :
                  (disc[r].at = "recv" /\ gpc[r][p] \in {"send", "done"}
                     /\ p \notin disc[r].ready) => gres[r][p].Err # NilErr)
    /\ [][\A r \in Reqs :
            parentDone[r] =>
               /\ now'[r] = now[r]
               /\ \A p \in Providers :
                     (gpc[r][p] \in {"do", "read"}
                        /\ gpc'[r][p] # gpc[r][p]) =>
                         gpc'[r][p] = "send" /\ gres'[r][p].Err # NilErr]_vars
    /\ \A r \in Reqs :
          (parentDone[r] /\ hpc[r] = "recv") ~>
              (hpc[r] = "done" /\ recvCount[r] = 1)

\* C14 witness: the client went away during the race with nothing enqueued
\* and the deadline not reached; both calls ended with the cancellation
\* error and the handler answered 500 without the clock advancing.
C14_Witness ==
    /\ Finished(1)
    /\ disc[1].at = "recv" /\ disc[1].sent = 0
    /\ now[1] < Timeout
    /\ ctx[1] = "Canceled"
    /\ \A p \in Providers :
          /\ gpc[1][p] = "done" /\ calls[1][p] = 1
          /\ "context canceled" \in Range(gres[1][p].Err.msg)
    /\ resp[1].status = StatusInternalServerError

----------------------------------------------------------------------------
(* Two requests served at the same time: net/http runs one handleCEP per    *)
(* request, each with its own ctx, cancel and resChan (lines 106-107).      *)

\* Request r's upstreams answer with address r, so that a message tells
\* which request it belongs to.
ConcOk(r) == [do |-> "resp", status |-> StatusOK, read |-> "ok",
              body |-> <<"json", r>>]
ConcNetErr == [do |-> "neterr", status |-> 0, read |-> "hang", body |-> NoBody]
ConcReadErr == [do |-> "resp", status |-> StatusOK, read |-> "readerr",
                body |-> NoBody]

ConcInit ==
    /\ path = [r \in Reqs |-> <<"/", "cep", "/", "01001000">>]
    /\ plan = [r \in Reqs |->
                 IF r = 1
                 THEN [p \in Providers |->
                         IF p = "brasilapi" THEN ConcOk(1) ELSE ConcNetErr]
                 ELSE [p \in Providers |->
                         IF p = "brasilapi" THEN ConcReadErr ELSE ConcOk(r)]]
    /\ hpc = [r \in Reqs |-> "start"]
    /\ InitRest

\* Both clients stay connected.
ConcNext ==
    \E r \in Reqs :
        \/ HandleEntry(r)
        \/ Receive(r)
        \/ Cancel(r)
        \/ Respond(r)
        \/ Tick(r)
        \/ \E p \in Providers :
              \/ FetchBegin(r, p)
              \/ DoAbort(r, p)
              \/ DoFail(r, p)
              \/ DoRespond(r, p)
              \/ ReadAbort(r, p)
              \/ ReadFail(r, p)
              \/ ReadOk(r, p)
              \/ Send(r, p)

ConcSpec == ConcInit /\ [][ConcNext]_vars

\* The handler, the clock or the context of request i moves.
Moves(i) ==
    \/ hpc'[i] # hpc[i]
    \/ now'[i] # now[i]
    \/ ctx'[i] # ctx[i]
    \/ cancelCalls'[i] # cancelCalls[i]

\* C16: with two requests in progress, what request r's handler consumes
\* is the first message its own goroutines enqueued, every message on its
\* channel carries its own upstream's data, its context is cancelled only
\* by its own cancel() and expires only on its own clock, and no step of
\* one request's handler, clock or context touches the other's context,
\* goroutines or channel.
C16_Isolated ==
    /\ [](\A r \in Reqs :
            /\ Len(sentLog[r]) <= 2
            /\ \A i \in 1..Len(sentLog[r]) :
                  sentLog[r][i].msg.Data.addr \in {0, r}
            /\ \A p \in Providers :
                  Cardinality(SentBy(r, p)) =
                     (IF gpc[r][p] = "done" THEN 1 ELSE 0)
            /\ recvCount[r] = 1 => result[r] = sentLog[r][1].msg
            /\ (hpc[r] = "done" /\ resp[r].status = StatusOK) =>
                  resp[r].data.addr = r
            /\ ctx[r] = "Canceled" => cancelCalls[r] = 1
            /\ ctx[r] = "DeadlineExceeded" => now[r] = Timeout
            /\ \A p \in Providers :
                  (gpc[r][p] \in {"send", "done"}
                     /\ "context canceled" \in Range(gres[r][p].Err.msg)) =>
                      cancelCalls[r] = 1)
    /\ [][\A i \in Reqs : \A j \in Reqs \ {i} :
            Moves(i) =>
               /\ ctx'[j] = ctx[j]
               /\ gpc'[j] = gpc[j] /\ gres'[j] = gres[j]
               /\ resChan'[j] = resChan[j] /\ sentLog'[j] = sentLog[j]
               /\ result'[j] = result[j] /\ resp'[j] = resp[j]]_vars

\* C16 witness: request 1 was answered from its own upstream and cancelled
\* its context, its loser's message sits unread in its channel; request 2
\* is still racing, its context active and its call in flight.
C16_Witness ==
    /\ hpc[1] = "done"
    /\ resp[1].status = StatusOK /\ resp[1].data.addr = 1
    /\ ctx[1] = "Canceled"
    /\ Len(resChan[1]) = 1
    /\ hpc[2] = "recv"
    /\ ctx[2] = "active"
    /\ gpc[2]["viacep"] = "read"
    /\ resChan[2] = <<>>

====
